---- MODULE Spec2Model ----
(***************************************************************************)
(* Model of the panic/greed detector of Panicker 3000                      *)
(* (core/panic_detector.py) with its three context filters                 *)
(* (core/filters/*.py).                                                    *)
(*                                                                         *)
(* Units.  RSI values are whole points.  volume_ratio is in tenths         *)
(* (12 stands for 1.2).  Prices, ATR values and volumes are whole units.   *)
(* Every comparison of a quotient with a threshold is cross-multiplied, so *)
(* x / y >= 0.8 is written x * 10 >= 8 * y.  Python's None is NONE for a   *)
(* numeric field and NoneStr for a string field; all real numeric values   *)
(* are non-negative.                                                       *)
(***************************************************************************)
EXTENDS Integers, Sequences, FiniteSets, TLC

NONE == 0 - 1
NoneStr == "None"

(***************************************************************************)
(* Program constants.                                                      *)
(***************************************************************************)
\* DEFAULT_THRESHOLDS['white']['rsi_buy']
RSI_BUY == 35
\* DEFAULT_THRESHOLDS['white']['rsi_sell']
RSI_SELL == 65
\* DEFAULT_THRESHOLDS['white']['volume_min'] = 1.2, in tenths
VOLUME_MIN == 12
\* adjust_level_by_volume: volume_ratio < 2.0, in tenths
VOLUME_BUMP == 20
\* VolatilityFilter.min_atr_ratio = 0.8, in tenths
MIN_ATR_RATIO == 8
\* VolatilityFilter.min_absolute_atr = 0.5 (percent), in tenths of a percent
MIN_ABSOLUTE_ATR == 5
\* TrendFilter.ma_period
MA_PERIOD == 20
\* TrendFilter fallback: BUY if rsi < 30
TREND_RSI_BUY == 30
\* VolumeFilter cache life: timedelta(hours=1); the clock counts hours
CACHE_TTL == 1
\* PanicSignal.rsi_*: Field(ge=0.0, le=100.0)
RSI_MAX == 100

(***************************************************************************)
(* Bounds of the model.                                                    *)
(***************************************************************************)
\* the clock runs from 0 to MaxClock hours
MaxClock == 2

Tickers == {"SBER", "GAZP"}

RECURSIVE SumSeq(_)
SumSeq(s) == IF s = <<>> THEN 0 ELSE Head(s) + SumSeq(Tail(s))

\* prices[-period:]
LastN(s, n) == SubSeq(s, Len(s) - n + 1, Len(s))

Repeat(x, n) == [i \in 1..n |-> x]

(***************************************************************************)
(* Steps 1-4: check_basic_conditions.                                      *)
(***************************************************************************)
\* The calendar's answer to is_market_open_now(): "open", "closed", or the
\* call raising ("raises").
CalendarAnswers == {"open", "closed", "raises"}

\* A gate that never asks the calendar.
_check_market_time_always_open(mkt) == TRUE

\* A gate that takes a calendar that cannot answer for a closed market.
_check_market_time_fail_closed(mkt) == mkt = "open"

_check_market_time(mkt) ==
    IF mkt = "raises" THEN TRUE ELSE mkt = "open"

\* The answer of the stub __init__ installs when get_market_calendar() raises.
MockCalendar_is_market_open_now == "open"

_validate_data(td) ==
    /\ td.ticker # NoneStr
    /\ td.rsi_14 # NONE
    /\ td.volume_ratio # NONE
    /\ td.price # NONE

\* The typing with the boundary values left out.
_get_signal_type_from_rsi_strict(rsi_14) ==
    IF rsi_14 < RSI_BUY THEN "panic"
    ELSE IF rsi_14 > RSI_SELL THEN "greed"
    ELSE NoneStr

_get_signal_type_from_rsi(rsi_14) ==
    IF rsi_14 <= RSI_BUY THEN "panic"
    ELSE IF rsi_14 >= RSI_SELL THEN "greed"
    ELSE NoneStr

\* The reason check_basic_conditions stops with, or "ok".  mkt2 is the answer
\* to the second calendar call, made only to word the message.
check_basic_conditions(td, mkt, mkt2) ==
    IF ~_check_market_time(mkt)
    THEN IF mkt2 = "raises" THEN "raised_step1" ELSE "market_closed"
    ELSE IF ~_validate_data(td) THEN "no_data"
    ELSE IF _get_signal_type_from_rsi(td.rsi_14) = NoneStr THEN "rsi_normal"
    ELSE IF td.volume_ratio < VOLUME_MIN THEN "low_volume"
    ELSE "ok"

(***************************************************************************)
(* Step 5: get_base_level.  Comparing None with a number raises TypeError  *)
(* in Python 3; outside_7, outside_14, outside_21 are all evaluated before *)
(* the branches, so one missing value raises.                              *)
(***************************************************************************)
\* outside() with the boundary values included.
is_outside_inclusive(rsi_value, signal_type) ==
    IF signal_type = "panic"
    THEN rsi_value <= RSI_BUY
    ELSE rsi_value >= RSI_SELL

is_outside(rsi_value, signal_type) ==
    IF signal_type = "panic"
    THEN rsi_value < RSI_BUY
    ELSE rsi_value > RSI_SELL

get_base_level(rsi_7, rsi_14, rsi_21, signal_type) ==
    IF rsi_7 = NONE \/ rsi_14 = NONE \/ rsi_21 = NONE THEN "TypeError"
    ELSE LET outside_7 == is_outside(rsi_7, signal_type)
             outside_14 == is_outside(rsi_14, signal_type)
             outside_21 == is_outside(rsi_21, signal_type)
         IN IF outside_7 /\ outside_14 /\ outside_21 THEN "strong"
            ELSE IF (outside_7 /\ outside_14) \/ (outside_14 /\ outside_21)
                 THEN "good"
            ELSE IF outside_14 THEN "urgent"
            ELSE "none"

(***************************************************************************)
(* Step 6: adjust_level_by_volume.                                         *)
(***************************************************************************)
IndexOf(seq, x) == CHOOSE i \in 1..Len(seq) : seq[i] = x

InSeq(seq, x) == \E i \in 1..Len(seq) : seq[i] = x

\* The promotion with volume_ratio = 2.0 left out.
adjust_level_by_volume_strict(base_level, volume_ratio) ==
    IF volume_ratio <= VOLUME_BUMP THEN base_level
    ELSE LET level_order == <<"urgent", "good", "strong">>
         IN IF InSeq(level_order, base_level)
                  /\ IndexOf(level_order, base_level) < Len(level_order)
            THEN level_order[IndexOf(level_order, base_level) + 1]
            ELSE base_level

adjust_level_by_volume(base_level, volume_ratio) ==
    IF volume_ratio < VOLUME_BUMP THEN base_level
    ELSE LET level_order == <<"urgent", "good", "strong">>
         IN IF InSeq(level_order, base_level)
                  /\ IndexOf(level_order, base_level) < Len(level_order)
            THEN level_order[IndexOf(level_order, base_level) + 1]
            ELSE base_level

(***************************************************************************)
(* Step 7: the context filters.  Each check returns (passed, message); the *)
(* message is kept as a short reason code.                                 *)
(***************************************************************************)
Pass(msg) == [passed |-> TRUE, msg |-> msg]

Fail(msg) == [passed |-> FALSE, msg |-> msg]

\* VolatilityFilter.check.  The average ATR is the fraction num / den.
VolatilityFilter_check(td) ==
    IF td.current_atr = NONE THEN Fail("no current atr")
    ELSE IF td.average_atr = NONE /\ td.historical_atrs = <<>>
    THEN Fail("no average atr")
    ELSE LET num == IF td.average_atr = NONE
                    THEN SumSeq(td.historical_atrs) ELSE td.average_atr
             den == IF td.average_atr = NONE
                    THEN Len(td.historical_atrs) ELSE 1
         IN IF /\ td.price # NONE
               /\ td.price > 0
               /\ td.current_atr * 100 * 10 < MIN_ABSOLUTE_ATR * td.price
            THEN Fail("atr too small")
            ELSE IF num > 0 /\ td.current_atr * den * 10 >= MIN_ATR_RATIO * num
            THEN Pass("volatility sufficient")
            ELSE Fail("volatility low")

\* TrendFilter.check, with require_trend_alignment at its default True.  The
\* input carries no 'rsi' key, so the fallback reads rsi_14.  The message is
\* built by dividing by the SMA, so an SMA of zero raises ZeroDivisionError,
\* which the filter turns into a failure.
TrendFilter_check(td) ==
    IF td.price = NONE THEN Fail("no price")
    ELSE IF td.sma_20 = NONE /\ Len(td.historical_prices) < MA_PERIOD
    THEN Fail("no sma")
    ELSE LET num == IF td.sma_20 = NONE
                    THEN SumSeq(LastN(td.historical_prices, MA_PERIOD))
                    ELSE td.sma_20
             den == IF td.sma_20 = NONE THEN MA_PERIOD ELSE 1
             buy == IF td.signal_type = "panic" THEN TRUE
                    ELSE IF td.signal_type = "greed" THEN FALSE
                    ELSE td.rsi_14 < TREND_RSI_BUY
         IN IF td.signal_type \notin {"panic", "greed"} /\ td.rsi_14 = NONE
            THEN Fail("signal type undefined")
            ELSE IF num = 0 THEN Fail("error")
            ELSE IF buy
            THEN IF td.price * den > num
                 THEN Pass("buy: price above sma")
                 ELSE Fail("buy: price below sma")
            ELSE IF td.price * den < num
                 THEN Pass("sell: price below sma")
                 ELSE Fail("sell: price above sma")

\* VolumeFilter._get_average_volume.  cache and expiry are the filter's
\* volume_cache and cache_expiry, api is the adapter's answer: the mean volume
\* of the daily candles it returns, or NONE when it returns none or fails.
\* The result is [num, den, cache, expiry]; num = NONE stands for None.
CacheFresh(ticker, cache, expiry, t) ==
    /\ ticker \in DOMAIN cache
    /\ cache[ticker] # NONE
    /\ expiry[ticker] # NONE
    /\ t < expiry[ticker]

Avg(num, den, cache, expiry) ==
    [num |-> num, den |-> den, cache |-> cache, expiry |-> expiry]

\* The average read from the cache before the input's own history.
_get_average_volume_cache_first(ticker, td, cache, expiry, t, api) ==
    IF CacheFresh(ticker, cache, expiry, t)
    THEN Avg(cache[ticker], 1, cache, expiry)
    ELSE IF td.historical_volumes # <<>>
    THEN Avg(SumSeq(td.historical_volumes), Len(td.historical_volumes),
             cache, expiry)
    ELSE IF api # NONE
    THEN Avg(api, 1, [cache EXCEPT ![ticker] = api],
             [expiry EXCEPT ![ticker] = t + CACHE_TTL])
    ELSE Avg(NONE, 1, cache, expiry)

_get_average_volume(ticker, td, cache, expiry, t, api) ==
    IF td.historical_volumes # <<>>
    THEN Avg(SumSeq(td.historical_volumes), Len(td.historical_volumes),
             cache, expiry)
    ELSE IF CacheFresh(ticker, cache, expiry, t)
    THEN Avg(cache[ticker], 1, cache, expiry)
    ELSE IF api # NONE
    THEN Avg(api, 1, [cache EXCEPT ![ticker] = api],
             [expiry EXCEPT ![ticker] = t + CACHE_TTL])
    ELSE Avg(NONE, 1, cache, expiry)

\* A volume filter that compares the invocation's volume_ratio field.
VolumeFilter_check_volume_ratio(td, cache, expiry, t, api) ==
    [res |-> IF td.volume_ratio >= VOLUME_MIN
             THEN Pass("volume sufficient")
             ELSE Fail("volume insufficient"),
     cache |-> cache, expiry |-> expiry]

\* VolumeFilter.check with min_volume_ratio = thresholds['white']['volume_min'].
\* The result is the check's answer with the filter's cache after the call.
VolumeFilter_check(td, cache, expiry, t, api) ==
    IF td.ticker = NoneStr \/ td.ticker = ""
    THEN [res |-> Fail("no ticker"), cache |-> cache, expiry |-> expiry]
    ELSE IF td.current_volume = NONE
    THEN [res |-> Fail("no current volume"), cache |-> cache, expiry |-> expiry]
    ELSE LET avg == _get_average_volume(td.ticker, td, cache, expiry, t, api)
         IN [res |-> IF avg.num = NONE \/ avg.num <= 0
                     THEN Fail("no average volume")
                     ELSE IF td.current_volume * avg.den * 10 >= VOLUME_MIN * avg.num
                     THEN Pass("volume sufficient")
                     ELSE Fail("volume insufficient"),
             cache |-> avg.cache, expiry |-> avg.expiry]

_convert_to_final_level(base_level) ==
    CASE base_level = "strong" -> "red"
      [] base_level = "good" -> "yellow"
      [] base_level = "urgent" -> "white"
      [] OTHER -> "ignore"

\* A failed filter that sends the level straight to none.
Downgrade_to_none(current_level) == "none"

\* One pass of the loop body of apply_context_filters for a failed filter.
Downgrade(current_level) ==
    LET level_order == <<"strong", "good", "urgent", "none">>
    IN IF InSeq(level_order, current_level)
             /\ IndexOf(level_order, current_level) < Len(level_order)
       THEN level_order[IndexOf(level_order, current_level) + 1]
       ELSE current_level

\* apply_context_filters.  results are the three checks in filter_order;
\* levels[i + 1] is current_level after the i-th filter.
FilterOrder == <<"volatility", "trend", "volume">>

RECURSIVE LevelsAfter(_, _)
LevelsAfter(results, levels) ==
    IF results = <<>> THEN levels
    ELSE LET cur == levels[Len(levels)]
             nxt == IF Head(results).passed THEN cur ELSE Downgrade(cur)
         IN LevelsAfter(Tail(results), Append(levels, nxt))

FilterEntries(results, passed) ==
    LET idx == {i \in 1..Len(results) : results[i].passed = passed}
        RECURSIVE Build(_)
        Build(i) == IF i > Len(results) THEN <<>>
                    ELSE IF i \in idx
                    THEN <<(<<FilterOrder[i], results[i].msg>>)>> \o Build(i + 1)
                    ELSE Build(i + 1)
    IN Build(1)

apply_context_filters(td, base_level, cache, expiry, t, api) ==
    LET vol == VolumeFilter_check(td, cache, expiry, t, api)
        results == <<VolatilityFilter_check(td), TrendFilter_check(td), vol.res>>
        levels == LevelsAfter(results, <<base_level>>)
    IN [final_level |-> _convert_to_final_level(levels[Len(levels)]),
        passed |-> FilterEntries(results, TRUE),
        failed |-> FilterEntries(results, FALSE),
        levels |-> levels,
        cache |-> vol.cache,
        expiry |-> vol.expiry]

(***************************************************************************)
(* Steps 8-10 and the construction of the PanicSignal.                     *)
(***************************************************************************)
\* if base_level == BaseLevel.NONE: return None
Step5Drops(base_level) == base_level = "none"

\* A step 8 that drops the white level as well.
Step8Drops_white(final_level) == final_level \in {"ignore", "white"}

\* if final_level == FinalLevel.IGNORE: return None
Step8Drops(final_level) == final_level = "ignore"

\* The Field constraints of utils.schemas.PanicSignal on the values that
\* analyze_ticker copies from its input.  risk_metric is not listed: the risk
\* scorer's result is always within [0, 100].
PanicSignal_valid(td) ==
    /\ td.ticker # NoneStr
    /\ td.rsi_7 = NONE \/ (0 <= td.rsi_7 /\ td.rsi_7 <= RSI_MAX)
    /\ 0 <= td.rsi_14 /\ td.rsi_14 <= RSI_MAX
    /\ td.rsi_21 = NONE \/ (0 <= td.rsi_21 /\ td.rsi_21 <= RSI_MAX)
    /\ td.volume_ratio > 0
    /\ td.current_volume = NONE \/ td.current_volume > 0
    /\ td.average_volume = NONE \/ td.average_volume > 0
    /\ td.price = NONE \/ td.price > 0
    /\ td.atr = NONE \/ td.atr > 0

\* The value analyze_ticker stores in the signal's base_level field: its
\* local variable base_level, which step 6 has overwritten.
SignalBaseLevel(level5, level6) == level6

\* PanicSignal(...) as analyze_ticker fills it.  The cluster, risk and text
\* fields are functions of the fields listed here and are left out.
PanicSignal(td, t, signal_type, level5, level6, f) ==
    [ticker |-> td.ticker,
     timestamp |-> t,
     signal_type |-> signal_type,
     rsi_7 |-> td.rsi_7,
     rsi_14 |-> td.rsi_14,
     rsi_21 |-> td.rsi_21,
     volume_ratio |-> td.volume_ratio,
     current_volume |-> td.current_volume,
     average_volume |-> td.average_volume,
     base_level |-> SignalBaseLevel(level5, level6),
     final_level |-> f.final_level,
     passed_filters |-> f.passed,
     failed_filters |-> f.failed,
     price |-> td.price,
     atr |-> td.atr,
     sma_20 |-> td.sma_20]

\* What one invocation leaves behind.  outcome names where it ended; result
\* is <<>> for None and <<signal>> for a returned signal; passed and failed
\* are the lists step 7 built.  "raised_step1" and "raised_step5" are an
\* exception leaving analyze_ticker, which every caller (detect_panic,
\* analyze_multiple_tickers) turns into no signal.
NoFilters ==
    [final_level |-> NoneStr, passed |-> <<>>, failed |-> <<>>, levels |-> <<>>]

Ended(o, st, l5, l6, f, res, cache, expiry) ==
    [outcome |-> o, signal_type |-> st, level5 |-> l5, level6 |-> l6,
     levels7 |-> f.levels, final_level |-> f.final_level,
     passed |-> f.passed, failed |-> f.failed, result |-> res,
     cache |-> cache, expiry |-> expiry]

analyze_ticker(td, mkt, mkt2, cache, expiry, t, api) ==
    LET basic == check_basic_conditions(td, mkt, mkt2)
        signal_type == _get_signal_type_from_rsi(td.rsi_14)
        level5 == get_base_level(td.rsi_7, td.rsi_14, td.rsi_21, signal_type)
        level6 == adjust_level_by_volume(level5, td.volume_ratio)
        f == apply_context_filters(td, level6, cache, expiry, t, api)
    IN IF basic # "ok"
       THEN Ended(basic, NoneStr, NoneStr, NoneStr, NoFilters, <<>>,
                  cache, expiry)
       ELSE IF level5 = "TypeError"
       THEN Ended("raised_step5", signal_type, NoneStr, NoneStr, NoFilters,
                  <<>>, cache, expiry)
       ELSE IF Step5Drops(level5)
       THEN Ended("no_confirmation", signal_type, level5, NoneStr, NoFilters,
                  <<>>, cache, expiry)
       ELSE IF Step8Drops(f.final_level)
       THEN Ended("filtered", signal_type, level5, level6, f, <<>>,
                  f.cache, f.expiry)
       ELSE IF ~PanicSignal_valid(td)
       THEN Ended("invalid", signal_type, level5, level6, f, <<>>,
                  f.cache, f.expiry)
       ELSE Ended("emitted", signal_type, level5, level6, f,
                  <<PanicSignal(td, t, signal_type, level5, level6, f)>>,
                  f.cache, f.expiry)

(***************************************************************************)
(* Inputs.  Base is the strong-panic scenario of tests/test_panic_detector *)
(* (test_full_analysis_strong_panic), volumes in millions.                 *)
(***************************************************************************)
Base ==
    [ticker |-> "SBER", rsi_7 |-> 22, rsi_14 |-> 24, rsi_21 |-> 26,
     volume_ratio |-> 23, price |-> 310, sma_20 |-> 305,
     signal_type |-> NoneStr, historical_prices |-> <<>>,
     current_atr |-> 5, average_atr |-> 3, historical_atrs |-> <<>>,
     atr |-> 5, current_volume |-> 450, average_volume |-> 195,
     historical_volumes |-> <<195, 195>>]

Rsi14Values == {NONE, 24, 34, 35, 36, 64, 65, 66}

RsiSideValues == {NONE, 34, 35, 65, 66}

VolumeRatioValues == {NONE, 11, 12, 19, 20}

\* Inputs that vary the RSI triple and the volume ratio around every threshold.
RsiInputs ==
    {[Base EXCEPT !.rsi_7 = a, !.rsi_14 = b, !.rsi_21 = c,
                  !.volume_ratio = v, !.sma_20 = s] :
        a \in RsiSideValues, b \in Rsi14Values, c \in RsiSideValues,
        v \in VolumeRatioValues, s \in {305, 315}}

\* Inputs with a required field missing.
DataInputs ==
    {[Base EXCEPT !.ticker = NoneStr], [Base EXCEPT !.price = NONE],
     [Base EXCEPT !.ticker = ""]}

\* <<rsi_7, rsi_14, rsi_21>>: strong, good and urgent, panic and greed.
RsiProfiles ==
    {<<22, 24, 26>>, <<22, 24, 45>>, <<40, 28, 45>>, <<40, 33, 45>>,
     <<70, 72, 73>>, <<40, 72, 73>>, <<40, 72, 50>>}

\* <<price, sma_20, signal_type, historical_prices>>
TrendProfiles ==
    {<<310, 305, NoneStr, <<>> >>, <<310, 315, NoneStr, <<>> >>,
     <<310, 310, NoneStr, <<>> >>, <<310, NONE, NoneStr, <<>> >>,
     <<310, NONE, NoneStr, Repeat(300, MA_PERIOD)>>,
     <<310, NONE, NoneStr, Repeat(320, MA_PERIOD)>>,
     <<310, 305, "panic", <<>> >>, <<310, 305, "greed", <<>> >>,
     <<310, 315, "greed", <<>> >>, <<310, 0, NoneStr, <<>> >>,
     <<0, 305, NoneStr, <<>> >>}

\* <<current_atr, average_atr, historical_atrs>>
VolatilityProfiles ==
    {<<5, 3, <<>> >>, <<NONE, 3, <<>> >>, <<5, NONE, <<>> >>,
     <<5, NONE, <<6, 6>> >>, <<5, NONE, <<7, 7>> >>, <<1, 1, <<>> >>,
     <<2, 3, <<>> >>, <<5, 0, <<>> >>, <<0, 3, <<>> >>}

\* <<ticker, current_volume, historical_volumes>>
VolumeProfiles ==
    {<<"SBER", 450, <<195, 195>> >>, <<"SBER", NONE, <<195, 195>> >>,
     <<"SBER", 200, <<195, 195>> >>, <<"SBER", 234, <<195, 195>> >>,
     <<"SBER", 273, <<195, 195>> >>,
     <<"SBER", 450, <<>> >>, <<"", 450, <<195, 195>> >>,
     <<"SBER", 450, <<0, 0>> >>, <<"SBER", 0, <<195, 195>> >>}

\* <<atr, average_volume>>
SignalProfiles == {<<5, 195>>, <<NONE, NONE>>, <<0, 195>>, <<5, 0>>}

\* Inputs that pass steps 1-5 and vary what the filters and the signal read.
FilterInputs ==
    {[ticker |-> vo[1], rsi_7 |-> r[1], rsi_14 |-> r[2], rsi_21 |-> r[3],
      volume_ratio |-> v, price |-> tr[1], sma_20 |-> tr[2],
      signal_type |-> tr[3], historical_prices |-> tr[4],
      current_atr |-> va[1], average_atr |-> va[2], historical_atrs |-> va[3],
      atr |-> sg[1], current_volume |-> vo[2], average_volume |-> sg[2],
      historical_volumes |-> vo[3]] :
        r \in RsiProfiles, v \in {13, 21}, tr \in TrendProfiles,
        va \in VolatilityProfiles, vo \in VolumeProfiles,
        sg \in SignalProfiles}

\* An invocation: <<ticker_data, the calendar's answer>>.  The inputs that
\* stop in steps 1-5 meet every calendar answer; the inputs that vary what
\* step 7 reads meet an open market.
Inputs ==
    ((RsiInputs \cup DataInputs) \X CalendarAnswers)
        \cup (FilterInputs \X {"open"})

\* The adapter's answers to the volume filter's request for daily candles:
\* the mean of their volumes, or NONE when it returns none or fails.
ApiAnswers == {NONE, 195, 400}

\* The answers the second calendar call of check_basic_conditions can give;
\* the call is made only after the first one said closed.
SecondAnswers(mkt) ==
    IF _check_market_time(mkt) THEN {mkt} ELSE CalendarAnswers

\* The invocation reaches the adapter: it gets to step 7, the volume filter
\* has a ticker and a current volume, and neither the input nor the cache
\* gives an average.
AdapterAsked(td, mkt, cache, expiry, t) ==
    /\ analyze_ticker(td, mkt, mkt, cache, expiry, t, NONE).levels7 # <<>>
    /\ td.ticker \notin {NoneStr, ""}
    /\ td.current_volume # NONE
    /\ td.historical_volumes = <<>>
    /\ ~CacheFresh(td.ticker, cache, expiry, t)

\* The adapter answers the invocation can see; NONE also when it is not asked.
AdapterAnswers(td, mkt, cache, expiry, t) ==
    IF AdapterAsked(td, mkt, cache, expiry, t) THEN ApiAnswers ELSE {NONE}

\* Inputs of the runs with several invocations: with and without the
\* historical volumes, strong and urgent, and one with RSI in the normal range.
PairInputs ==
    {Base,
     [Base EXCEPT !.historical_volumes = <<>>],
     [Base EXCEPT !.rsi_7 = 40, !.rsi_14 = 28, !.rsi_21 = 45,
                  !.volume_ratio = 13],
     [Base EXCEPT !.rsi_7 = 40, !.rsi_14 = 28, !.rsi_21 = 45,
                  !.volume_ratio = 13, !.historical_volumes = <<>>],
     [Base EXCEPT !.rsi_14 = 50]}

(***************************************************************************)
(* State.                                                                  *)
(***************************************************************************)
VARIABLES
    now,            \* the clock, in hours
    volume_cache,   \* VolumeFilter.volume_cache
    cache_expiry,   \* VolumeFilter.cache_expiry
    ticker_data,    \* the argument of the invocation
    market,         \* the calendar's answer during the invocation
    api_answer,     \* the adapter's answer during the invocation
    run,            \* what the invocation left behind
    prev,           \* <<>> or <<an earlier invocation>>
    db,             \* the signals table of data/database.py, with its clock
    srv,            \* the gRPC server's ScanTickers handlers
    scn,            \* the PanickerScanner process of run_scanner.py
    cache           \* the DataCache of data/data_cache.py, with its clock

detectorVars == <<now, volume_cache, cache_expiry, ticker_data, market,
                  api_answer, run, prev>>

serviceVars == <<db, srv, scn, cache>>

vars == <<detectorVars, serviceVars>>

\* The services before anything has run: an empty signals table, no request
\* being handled, a scanner that has not been started.
NoSignal == [ticker |-> NoneStr, timestamp |-> NONE, signal_type |-> NoneStr,
             level |-> NoneStr]

\* No statistics have been asked for.
NoStats == [total_signals |-> NONE, strong_signals |-> NONE, moderate_signals |-> NONE, urgent_signals |-> NONE]

NoOp == [op |-> "none", signal |-> NoSignal, ticker |-> NoneStr, days_back |-> 0, ok |-> FALSE, before |-> <<>>, result |-> <<>>, saved |-> NoSignal, inserts |-> 0, stats |-> NoStats]

DbEmpty == [rows |-> <<>>, clock |-> 0, last |-> NoOp]

\* A handler thread of the gRPC server that has no request.
IdleHandler == [pc |-> "idle", request |-> <<>>, i |-> 0, tickers_scanned |-> 0, signals |-> 0, detected |-> <<>>, emitted |-> <<>>, raised |-> {}, response |-> <<>>]

\* The threads of serve()'s ThreadPoolExecutor that are followed.
Handlers == {"h1", "h2"}

SrvIdle == [constructed |-> FALSE, panic_detector |-> FALSE, handlers |-> [h \in Handlers |-> IdleHandler]]

\* The scan threads that are followed, none of them started yet.
Threads == {"t1", "t2"}

\* `fresh`: the tick the thread is in began after the latest IgnoreTicker call.
NoThread == [pc |-> "none", k |-> 0, fresh |-> FALSE]

\* No IgnoreTicker call has been made.
NoIgnore == [ticker |-> NoneStr, until |-> 0, answered |-> 0]

\* PanickerScanner.__init__: is_running and scanning are False.
\* The scan loop's clock, in seconds since the loop began: last_scan_time of
\* _scan_loop, the time of the last market check (checked_at), whether it
\* found the market closed (closed), and the time of the closed check that
\* came right before it (prev_closed).
NoTimer == [secs |-> 0, last_scan_time |-> 0, checked_at |-> NONE, closed |-> FALSE, prev_closed |-> NONE]

ScnIdle == [is_running |-> FALSE, scanning |-> FALSE, main |-> "new", shutdown |-> FALSE, threads |-> [t \in Threads |-> NoThread], alert |-> NoneStr, ignored |-> NoIgnore, hour |-> 0, late_tick |-> FALSE, waited |-> 0, timer |-> NoTimer]

\* No operation of the cache has run.
NoCacheOp == [op |-> "none", key |-> NoneStr, result |-> NoneStr, locked |-> TRUE]

CacheKeys == {"k1", "k2", "k3"}

\* Nothing is known to have been set for a key.
NoLatest == [data |-> NoneStr, at |-> 0, ttl |-> 0, dropped |-> FALSE]

\* DataCache.__init__: an empty dictionary.  `entries` is the dictionary in
\* its insertion order; `latest` keeps, per key, the last set() since the
\* last delete(), and whether clear() or an eviction has removed it since.
CacheEmpty == [entries |-> <<>>, clock |-> 0, last |-> NoCacheOp, latest |-> [k \in CacheKeys |-> NoLatest]]

ServicesIdle == db = DbEmpty /\ srv = SrvIdle /\ scn = ScnIdle /\ cache = CacheEmpty

Pending ==
    Ended("pending", NoneStr, NoneStr, NoneStr, NoFilters, <<>>, <<>>, <<>>)

\* The detector after PanicDetector.__init__, about to be invoked.
InitWith(inputs) ==
    /\ now = 0
    /\ volume_cache = [t \in Tickers |-> NONE]
    /\ cache_expiry = [t \in Tickers |-> NONE]
    /\ \E i \in inputs : ticker_data = i[1] /\ market = i[2]
    /\ api_answer = NONE
    /\ run = Pending
    /\ prev = <<>>
    /\ ServicesIdle

Init == InitWith(Inputs)

InitPair == InitWith(PairInputs \X CalendarAnswers)

\* One call of analyze_ticker(td).
Analyze(td, mkt, mkt2, api) ==
    LET r == analyze_ticker(td, mkt, mkt2, volume_cache, cache_expiry, now, api)
    IN /\ ticker_data' = td
       /\ market' = mkt
       /\ api_answer' = api
       /\ run' = [r EXCEPT !.cache = <<>>, !.expiry = <<>>]
       /\ volume_cache' = r.cache
       /\ cache_expiry' = r.expiry
       /\ UNCHANGED now

\* The first invocation, on the input Init drew.
AnalyzePending ==
    /\ run.outcome = "pending"
    /\ \E mkt2 \in SecondAnswers(market),
          api \in AdapterAnswers(ticker_data, market, volume_cache,
                                 cache_expiry, now) :
          Analyze(ticker_data, market, mkt2, api)
    /\ UNCHANGED prev
    /\ UNCHANGED serviceVars

\* A further invocation of the same detector; prev keeps the invocation
\* before it, or an earlier one.
AnalyzeAgain ==
    /\ run.outcome # "pending"
    /\ \E td \in PairInputs, mkt \in CalendarAnswers :
          \E mkt2 \in SecondAnswers(mkt),
             api \in AdapterAnswers(td, mkt, volume_cache, cache_expiry, now) :
             Analyze(td, mkt, mkt2, api)
    /\ prev' \in {prev, <<[ticker_data |-> ticker_data, market |-> market,
                          api_answer |-> api_answer, result |-> run.result]>>}
    /\ UNCHANGED serviceVars

\* An hour passes.
Tick ==
    /\ now < MaxClock
    /\ now' = now + 1
    /\ UNCHANGED <<volume_cache, cache_expiry, ticker_data, market,
                   api_answer, run, prev>>
    /\ UNCHANGED serviceVars

Next == AnalyzePending

Spec == Init /\ [][Next]_vars

NextPair == AnalyzePending \/ AnalyzeAgain \/ Tick

SpecPair == InitPair /\ [][NextPair]_vars

\* The invocation has run, and how far it got.
Invoked == run.outcome # "pending"

PassedGate == run.outcome \in {"raised_step5", "no_confirmation", "filtered",
                               "invalid", "emitted"}

Reached6 == run.outcome \in {"filtered", "invalid", "emitted"}

(***************************************************************************)
(* Properties of one invocation (Spec).                                    *)
(***************************************************************************)
\* Rungs of the base levels and of the final levels.
Rank(level) ==
    CASE level = "strong" -> 3
      [] level = "good" -> 2
      [] level = "urgent" -> 1
      [] OTHER -> 0

FinalRank(level) ==
    CASE level = "red" -> 3
      [] level = "yellow" -> 2
      [] level = "white" -> 1
      [] OTHER -> 0

LevelOfRank(n) ==
    CASE n >= 3 -> "strong"
      [] n = 2 -> "good"
      [] n = 1 -> "urgent"
      [] OTHER -> "none"

Max(a, b) == IF a >= b THEN a ELSE b

Min(a, b) == IF a <= b THEN a ELSE b

\* C1: when the calendar answers closed, the invocation returns no signal,
\* whatever the indicators are.
C1_ClosedMarketNoSignal ==
    (Invoked /\ market = "closed") => run.result = <<>>

\* An input that yields a signal on an open market met a closed one.
C1_Witness ==
    /\ market = "closed"
    /\ run.outcome = "market_closed"
    /\ ticker_data = [Base EXCEPT !.rsi_7 = 34, !.rsi_21 = 34,
                                  !.volume_ratio = 20]

\* C2 as stated: an invocation that got a final level returns no signal if
\* and only if that level is ignore.
C2_Original ==
    Reached6 => (run.result = <<>> <=> run.final_level = "ignore")

\* C2 amended: a final level of ignore never yields a signal, and a final
\* level of red, yellow or white yields a signal, carrying that level,
\* exactly when the PanicSignal model accepts the values copied from the
\* input.
C2_FinalLevelAndSignal ==
    Reached6 =>
        /\ run.final_level \in {"red", "yellow", "white", "ignore"}
        /\ run.final_level = "ignore" => run.result = <<>>
        /\ run.final_level # "ignore" =>
              (run.result # <<>> <=> PanicSignal_valid(ticker_data))
        /\ run.result # <<>> => run.result[1].final_level = run.final_level

C2_Witness ==
    /\ run.outcome = "emitted"
    /\ run.final_level = "white"
    /\ Len(run.failed) = 2

\* The i-th filter of the fixed order failed.
FilterFailed(i) ==
    \E k \in 1..Len(run.failed) : run.failed[k][1] = FilterOrder[i]

\* C3: in step 7 each failed filter lowers the level by one rung of
\* strong, good, urgent, none, each passed filter leaves it unchanged, and
\* the level after step 7 is the level entering it lowered by the number of
\* failed filters, stopping at none, so never higher.
C3_OneRungPerFailedFilter ==
    Reached6 =>
        /\ Len(run.levels7) = Len(FilterOrder) + 1
        /\ run.levels7[1] = run.level6
        /\ \A i \in 1..Len(FilterOrder) :
              run.levels7[i + 1] =
                  IF FilterFailed(i)
                  THEN LevelOfRank(Max(Rank(run.levels7[i]) - 1, 0))
                  ELSE run.levels7[i]
        /\ Len(run.passed) + Len(run.failed) = Len(FilterOrder)
        /\ FinalRank(run.final_level) =
              Max(Rank(run.level6) - Len(run.failed), 0)
        /\ FinalRank(run.final_level) <= Rank(run.level6)

\* A strong level lost two rungs to two failed filters, and the third passed.
C3_Witness ==
    /\ Reached6
    /\ run.level6 = "strong"
    /\ run.levels7 = <<"strong", "good", "good", "urgent">>
    /\ run.final_level = "white"

\* C4 as stated: with four filters, the final level is the level entering
\* step 7 lowered by four minus the number of passed filters: strong gives
\* red, yellow, white, ignore, ignore for 4, 3, 2, 1, 0 passed filters, good
\* gives yellow, white, ignore, ignore, ignore and urgent gives white, ignore,
\* ignore, ignore, ignore.
C4_Original ==
    Reached6 =>
        FinalRank(run.final_level) =
            Max(Rank(run.level6) - (4 - Len(run.passed)), 0)

\* C5: with outside(x) strict against the white thresholds, step 5 gives
\* strong when rsi_7, rsi_14 and rsi_21 are all outside, good when rsi_14 and
\* exactly one of the other two are, urgent when only rsi_14 is, and none,
\* which drops the invocation, otherwise (rsi_7 and rsi_21 present).
Outside(x) ==
    IF run.signal_type = "panic" THEN x < RSI_BUY ELSE x > RSI_SELL

C5_Expected ==
    LET o7 == Outside(ticker_data.rsi_7)
        o14 == Outside(ticker_data.rsi_14)
        o21 == Outside(ticker_data.rsi_21)
    IN IF o7 /\ o14 /\ o21 THEN "strong"
       ELSE IF o14 /\ (o7 \/ o21) THEN "good"
       ELSE IF o14 THEN "urgent"
       ELSE "none"

C5_BaseLevel ==
    (PassedGate /\ ticker_data.rsi_7 # NONE /\ ticker_data.rsi_21 # NONE) =>
        /\ run.level5 = C5_Expected
        /\ run.outcome = "no_confirmation" <=> C5_Expected = "none"

\* rsi_7 on the threshold does not count as outside: good, not strong.
C5_Witness ==
    /\ PassedGate
    /\ run.signal_type = "panic"
    /\ ticker_data.rsi_7 = RSI_BUY
    /\ ticker_data.rsi_21 = RSI_BUY - 1
    /\ run.level5 = "good"

\* C6 as stated: an invocation that passes steps 1-4 with rsi_14 strictly
\* outside the threshold and with rsi_7 and rsi_21 missing gets base level
\* urgent and goes on to step 6.
C6_Original ==
    (/\ PassedGate
     /\ ticker_data.rsi_7 = NONE
     /\ ticker_data.rsi_21 = NONE
     /\ Outside(ticker_data.rsi_14)) =>
        (run.level5 = "urgent" /\ Reached6)

C8_VolumePromotion ==
    Reached6 =>
        /\ run.level6 =
              IF ticker_data.volume_ratio >= VOLUME_BUMP
              THEN LevelOfRank(Min(Rank(run.level5) + 1, 3))
              ELSE run.level5
        /\ Rank(run.level6) >= Rank(run.level5)

\* A ratio of exactly 2.0 promotes urgent to good.
C8_Witness ==
    /\ Reached6
    /\ ticker_data.volume_ratio = VOLUME_BUMP
    /\ run.level5 = "urgent"
    /\ run.level6 = "good"

\* C9 as stated: the base_level field of a returned signal is the level of
\* step 5, before the promotion of step 6.
C9_Original ==
    run.result # <<>> => run.result[1].base_level = run.level5

(***************************************************************************)
(* Properties of several invocations of one detector (SpecPair).           *)
(***************************************************************************)
\* The invocation and an earlier one got the same ticker_data and the same
\* calendar answer.
SameInputs ==
    /\ Invoked
    /\ prev # <<>>
    /\ prev[1].ticker_data = ticker_data
    /\ prev[1].market = market

\* Both None, or signals equal in every field but the timestamp.
SameSignal(a, b) ==
    \/ a = <<>> /\ b = <<>>
    \/ /\ a # <<>>
       /\ b # <<>>
       /\ [a[1] EXCEPT !.timestamp = 0] = [b[1] EXCEPT !.timestamp = 0]

\* C10 as stated: two invocations with the same indicator values and the same
\* calendar answer both return no signal or return signals equal in every
\* field but the timestamp, whatever was invoked in between.
C10_Original ==
    SameInputs => SameSignal(prev[1].result, run.result)

\* C10 amended: the same holds of two invocations whose input carries a
\* non-empty historical_volumes list.
C10_SameInputsSameSignal ==
    (SameInputs /\ ticker_data.historical_volumes # <<>>) =>
        SameSignal(prev[1].result, run.result)

\* The same input gave the same signal an hour later, after an invocation in
\* between had filled the volume cache.
C10_Witness ==
    /\ SameInputs
    /\ ticker_data = Base
    /\ run.result # <<>>
    /\ prev[1].result # <<>>
    /\ run.result[1].timestamp > prev[1].result[1].timestamp
    /\ volume_cache[Base.ticker] # NONE

\* ------------------------------------------------------------------------
\* The signal store (data/database.py).  A timestamp is the number of
\* seconds since a fixed instant: the table keeps it as the text
\* '%Y-%m-%d %H:%M:%S', fixed width and zero padded, so that SQLite's text
\* comparison of two timestamps is the comparison of the two numbers.
\* ------------------------------------------------------------------------

\* timedelta(days=1) in seconds.
SECONDS_PER_DAY == 86400

\* The longest window a history query asks for here, in seconds.
Window == 30 * SECONDS_PER_DAY

\* Instants used as clock readings and as signal timestamps: one that leaves
\* the 30 day window, and two that are one second apart.
DbTimes == {0, Window, Window + 1}

\* The days_back arguments of a history query: the default and 30.
DaysBackValues == {7, 30}

\* The texts of the level column, in Latin letters.
STRONG_TEXT == "SILNIY"

MODERATE_TEXT == "HOROSHIY"

URGENT_TEXT == "SROCHNIY"

IGNORE_TEXT == "IGNORIROVAT"

UNKNOWN_TEXT == "NEIZVESTNO"

\* str(level) cut at its dots, for the levels ScanTickers may be handed: the
\* plain value a PanicSignal keeps (use_enum_values), or an enum member.
LevelArgs == {<<"red">>, <<"FinalLevel", "RED">>, <<"FinalLevel", "WHITE">>}

\* _convert_level_to_text: the last part of str(level), looked up in
\* level_map, whose keys are the upper-case member names.
_convert_level_to_text(level) ==
    LET level_str == level[Len(level)]
    IN  CASE level_str = "RED" -> STRONG_TEXT
          [] level_str = "YELLOW" -> MODERATE_TEXT
          [] level_str = "WHITE" -> URGENT_TEXT
          [] level_str = "IGNORE" -> IGNORE_TEXT
          [] OTHER -> UNKNOWN_TEXT

DbLevels == {_convert_level_to_text(level) : level \in LevelArgs}

\* Most rows the table is let grow to.
MaxRows == 2

\* What callers hand to save_signal: a dictionary with a level, or a
\* PanicSignal, whose dict() has no 'level' key.
SignalDicts == [ticker : Tickers, timestamp : DbTimes, signal_type : {"panic"}, level : DbLevels \cup {NoneStr}]

\* The columns declared NOT NULL by _init_db.
NotNullViolated(signal) ==
    \/ signal.ticker = NoneStr
    \/ signal.timestamp = NONE
    \/ signal.signal_type = NoneStr
    \/ signal.level = NoneStr

\* save_signal: a plain INSERT; any exception (a NOT NULL column left
\* empty) is caught and answered with False.
save_signal(rows, signal) ==
    IF NotNullViolated(signal)
    THEN [ok |-> FALSE, inserts |-> 1, rows |-> rows]
    ELSE [ok |-> TRUE, inserts |-> 1,
          rows |-> Append(rows, [id |-> Len(rows) + 1,
                                 ticker |-> signal.ticker,
                                 timestamp |-> signal.timestamp,
                                 signal_type |-> signal.signal_type,
                                 level |-> signal.level])]

\* The dictionary get_signal_history builds from one selected row.
HistoryDict(row) == [ticker |-> row.ticker, timestamp |-> row.timestamp, signal_type |-> row.signal_type, level |-> row.level]

\* The rows selected by WHERE ticker = ? AND timestamp >= ?.
Selected(rows, clock, ticker, days_back) ==
    {i \in DOMAIN rows :
        /\ rows[i].ticker = ticker
        /\ rows[i].timestamp >= clock - days_back * SECONDS_PER_DAY}

\* The orders of the selected rows a sort by timestamp may produce:
\* descending for sign 1, ascending for sign -1.
Orderings(rows, sel, sign) ==
    {p \in [1..Cardinality(sel) -> sel] :
        /\ \A i, j \in DOMAIN p : i # j => p[i] # p[j]
        /\ \A i, j \in DOMAIN p : i < j => sign * rows[p[i]].timestamp >= sign * rows[p[j]].timestamp}

\* ORDER BY timestamp ASC in place of DESC.
get_signal_history_oldest_first(rows, clock, ticker, days_back) ==
    LET sel == Selected(rows, clock, ticker, days_back)
    IN  {[i \in DOMAIN p |-> HistoryDict(rows[p[i]])] :
            p \in Orderings(rows, sel, 0 - 1)}

\* get_signal_history: every list the query may return.  ORDER BY timestamp
\* DESC leaves the order of rows with equal timestamps open; the limit
\* argument is not used by the query.
get_signal_history(rows, clock, ticker, days_back) ==
    LET sel == Selected(rows, clock, ticker, days_back)
    IN  {[i \in DOMAIN p |-> HistoryDict(rows[p[i]])] :
            p \in Orderings(rows, sel, 1)}

\* One call of save_signal.
Save ==
    /\ Len(db.rows) < MaxRows
    /\ \E signal \in SignalDicts :
          LET r == save_signal(db.rows, signal)
          IN  db' = [db EXCEPT !.rows = r.rows,
                               !.last = [NoOp EXCEPT !.op = "save",
                                                     !.signal = signal,
                                                     !.ticker = signal.ticker,
                                                     !.ok = r.ok,
                                                     !.inserts = r.inserts,
                                                     !.before = db.rows]]
    /\ UNCHANGED <<detectorVars, srv, scn, cache>>

\* One call of get_signal_history; `saved` is the signal of the successful
\* save this query directly follows, if it follows one.
History ==
    /\ \E ticker \in Tickers, days_back \in DaysBackValues :
       \E result \in get_signal_history(db.rows, db.clock, ticker, days_back) :
          db' = [db EXCEPT !.last =
                    [NoOp EXCEPT !.op = "history",
                                 !.ticker = ticker,
                                 !.days_back = days_back,
                                 !.ok = TRUE,
                                 !.before = db.rows,
                                 !.result = result,
                                 !.saved = IF db.last.op = "save" /\ db.last.ok
                                           THEN db.last.signal
                                           ELSE NoSignal]]
    /\ UNCHANGED <<detectorVars, srv, scn, cache>>

\* The wall clock moves on.
Advance ==
    /\ \E t \in DbTimes : t > db.clock /\ db' = [db EXCEPT !.clock = t]
    /\ UNCHANGED <<detectorVars, srv, scn, cache>>

\* The days argument of get_stats: its default.
STATS_DAYS == 7

\* How many of the rows in `window` carry the level text `text`; SQL's SUM
\* over no rows is NULL.
SumLevel(rows, window, text) == IF window = {} THEN NONE ELSE Cardinality({i \in window : rows[i].level = text})

\* get_stats: COUNT(*) and the three SUM(CASE WHEN level = ...) over the
\* rows of the last `days` days.
get_stats(rows, clock, days) ==
    LET window == {i \in DOMAIN rows : rows[i].timestamp >= clock - days * SECONDS_PER_DAY}
    IN  [total_signals |-> Cardinality(window),
         strong_signals |-> SumLevel(rows, window, STRONG_TEXT),
         moderate_signals |-> SumLevel(rows, window, MODERATE_TEXT),
         urgent_signals |-> SumLevel(rows, window, URGENT_TEXT)]

\* One call of get_stats(7).
Stats ==
    /\ db' = [db EXCEPT !.last = [NoOp EXCEPT !.op = "stats", !.ok = TRUE, !.before = db.rows, !.stats = get_stats(db.rows, db.clock, STATS_DAYS)]]
    /\ UNCHANGED <<detectorVars, srv, scn, cache>>

InitDb == InitWith({<<Base, "open">>})

NextDb == Save \/ History \/ Stats \/ Advance

SpecDb == InitDb /\ [][NextDb]_vars

\* The rows of `rows` that match `signal` on instrument and level and lie
\* within one second of it.
Duplicates(rows, signal) ==
    {i \in DOMAIN rows :
        /\ rows[i].ticker = signal.ticker
        /\ rows[i].level = signal.level
        /\ rows[i].timestamp - signal.timestamp \in {0 - 1, 0, 1}}

\* C19: saving a signal that matches a stored one on instrument, detection
\* time (within one second) and level adds no row: the table is what it was.
C19_Original ==
    (db.last.op = "save" /\ Duplicates(db.last.before, db.last.signal) # {})
        => db.rows = db.last.before

\* A history query for 30 days that directly follows a successful save of a
\* signal of the same instrument.
SavedThenHistory ==
    /\ db.last.op = "history"
    /\ db.last.saved # NoSignal
    /\ db.last.ticker = db.last.saved.ticker
    /\ db.last.days_back = 30

SavedAtFront ==
    /\ db.last.result # <<>>
    /\ db.last.result[1] = db.last.saved

\* The rows of the saved signal's instrument that were stored before it.
StoredBefore ==
    {i \in 1..(Len(db.rows) - 1) : db.rows[i].ticker = db.last.saved.ticker}

\* C20 as stated: after a successful save, history(instrument, 30, 100) has
\* the saved signal at position 0, whatever was stored before.
C20_Original == SavedThenHistory => SavedAtFront

\* C20 amended: after a successful save of a signal whose timestamp lies in
\* the last 30 days and is later than that of every stored signal of its
\* instrument, history(instrument, 30, 100) has it at position 0, and the
\* list is ordered by timestamp, newest first.
C20_SavedNewestAtFront ==
    (/\ SavedThenHistory
     /\ db.last.saved.timestamp >= db.clock - Window
     /\ \A i \in StoredBefore : db.rows[i].timestamp < db.last.saved.timestamp)
        => /\ SavedAtFront
           /\ \A i, j \in DOMAIN db.last.result :
                 i < j => db.last.result[i].timestamp >= db.last.result[j].timestamp

C20_Witness ==
    /\ SavedThenHistory
    /\ db.last.saved.timestamp >= db.clock - Window
    /\ StoredBefore # {}
    /\ \A i \in StoredBefore : db.rows[i].timestamp < db.last.saved.timestamp
    /\ Len(db.last.result) = 2
    /\ SavedAtFront

\* ------------------------------------------------------------------------
\* The scan service (grpc_service/grpc_server.py): one servicer object with
\* one PanicDetector, its ScanTickers handler run by the threads of a pool.
\* ------------------------------------------------------------------------

\* Most instruments in one ScanTickers request.
MaxLenRequest == 2

RECURSIVE SeqsUpTo(_, _)
SeqsUpTo(S, n) == IF n = 0 THEN {<<>>} ELSE LET shorter == SeqsUpTo(S, n - 1) IN shorter \cup {Append(q, x) : q \in {r \in shorter : Len(r) = n - 1}, x \in S}

Requests == SeqsUpTo(Tickers, MaxLenRequest)

\* What _get_real_ticker_data may answer: a dictionary, or {} when the
\* adapter has fewer than 50 candles or fails.
DataAnswers == {"data", "empty"}

\* How analyze_ticker may end: with a signal, with None, or with an
\* exception of one of its steps.
DetectorAnswers == {"signal", "none", "raised"}

\* _convert_real_signal_to_proto is defined with one parameter besides self
\* and called with two: the call raises TypeError.
ConvertRaises == TRUE

\* signal.signal_type is a plain string (use_enum_values), so reading its
\* .name while the dictionary for the store is built raises AttributeError.
SignalDataRaises == TRUE

\* The dictionary ScanTickers hands to save_signal.
ScanSignalData(ticker, clock) == [ticker |-> ticker, timestamp |-> clock, signal_type |-> "panic", level |-> _convert_level_to_text(<<"red">>)]

\* PanickerServiceServicer.__init__: the detector is there unless an import
\* or its construction failed.
Construct ==
    /\ ~srv.constructed
    /\ \E available \in BOOLEAN :
          srv' = [srv EXCEPT !.constructed = TRUE, !.panic_detector = available]
    /\ UNCHANGED <<detectorVars, db, scn, cache>>

\* A thread of the pool takes a request.  Without a detector the handler
\* answers at once with the counters it has.
Receive(h) ==
    /\ srv.constructed
    /\ srv.handlers[h].pc \in {"idle", "done"}
    /\ \E request \in Requests :
          srv' = [srv EXCEPT !.handlers[h] =
                    [IdleHandler EXCEPT !.request = request,
                                        !.pc = IF srv.panic_detector THEN "for" ELSE "return"]]
    /\ UNCHANGED <<detectorVars, db, scn, cache>>

\* The head of `for ticker_obj in request.tickers`; when the list is used
\* up the loop's else branch answers total_scanned = 0.
ForNext(h) ==
    LET s == srv.handlers[h]
    IN  /\ s.pc = "for"
        /\ IF s.i = Len(s.request)
           THEN srv' = [srv EXCEPT !.handlers[h].pc = "done",
                                   !.handlers[h].response = [total_scanned |-> 0, signals_found |-> 0, scan_id |-> "scan_error"]]
           ELSE srv' = [srv EXCEPT !.handlers[h].pc = "data",
                                   !.handlers[h].i = s.i + 1,
                                   !.handlers[h].tickers_scanned = s.tickers_scanned + 1]
        /\ UNCHANGED <<detectorVars, db, scn, cache>>

\* real_data = self._get_real_ticker_data(ticker); `continue` when empty.
GetData(h) ==
    LET s == srv.handlers[h]
    IN  /\ s.pc = "data"
        /\ \E answer \in DataAnswers :
              srv' = [srv EXCEPT !.handlers[h].pc = IF answer = "empty" THEN "for" ELSE "detect"]
        /\ UNCHANGED <<detectorVars, db, scn, cache>>

\* signal = self.panic_detector.analyze_ticker(real_data) comes back.  While
\* pc = "detect" the detection of request[i] is in flight.
Detect(h) ==
    LET s == srv.handlers[h]
        ticker == s.request[s.i]
    IN  /\ s.pc = "detect"
        /\ \E answer \in DetectorAnswers :
              srv' = [srv EXCEPT
                        !.handlers[h].detected = Append(s.detected, ticker),
                        !.handlers[h].emitted = IF answer = "signal" THEN Append(s.emitted, ticker) ELSE s.emitted,
                        !.handlers[h].raised = IF answer = "raised" THEN s.raised \cup {s.i} ELSE s.raised,
                        !.handlers[h].pc = IF answer = "signal" THEN "signal" ELSE "return"]
        /\ UNCHANGED <<detectorVars, db, scn, cache>>

\* The body of `if signal:`: convert, append, save to the store.  An
\* exception of the conversion leaves the body for the handler of the
\* enclosing try; one raised while saving is caught next to the save.
ConvertAndSave(h) ==
    LET s == srv.handlers[h]
        ticker == s.request[s.i]
    IN  /\ s.pc = "signal"
        /\ IF ConvertRaises
           THEN /\ srv' = [srv EXCEPT !.handlers[h].pc = "return",
                                      !.handlers[h].raised = s.raised \cup {s.i}]
                /\ db' = db
           ELSE /\ srv' = [srv EXCEPT !.handlers[h].pc = "return",
                                      !.handlers[h].signals = s.signals + 1]
                /\ db' = IF SignalDataRaises
                         THEN db
                         ELSE [db EXCEPT !.rows = save_signal(db.rows, ScanSignalData(ticker, db.clock)).rows]
        /\ UNCHANGED <<detectorVars, scn, cache>>

\* The return statement that closes the loop body (or, without a detector,
\* the function).
Return(h) ==
    LET s == srv.handlers[h]
    IN  /\ s.pc = "return"
        /\ srv' = [srv EXCEPT !.handlers[h].pc = "done",
                              !.handlers[h].response = [total_scanned |-> s.tickers_scanned, signals_found |-> s.signals, scan_id |-> "scan"]]
        /\ UNCHANGED <<detectorVars, db, scn, cache>>

ScanTickers(h) == Receive(h) \/ ForNext(h) \/ GetData(h) \/ Detect(h) \/ ConvertAndSave(h) \/ Return(h)

InitScan == InitWith({<<Base, "open">>})

NextScan == Construct \/ \E h \in Handlers : ScanTickers(h)

SpecScan == InitScan /\ [][NextScan]_vars

\* A handler that has answered a request with the detector at hand.
Answered(h) == srv.handlers[h].pc = "done" /\ srv.panic_detector

\* C18: a request has the detector run once for each instrument listed
\* before the answer, and the answer's total_scanned is their number.
C18_Original ==
    \A h \in Handlers :
        Answered(h) => /\ srv.handlers[h].detected = srv.handlers[h].request
                       /\ srv.handlers[h].response.total_scanned = Len(srv.handlers[h].request)

\* C14: when a request has been answered, every signal the detector
\* returned while it was handled has a row in the store.
C14_Original ==
    \A h \in Handlers :
        Answered(h) => \A k \in DOMAIN srv.handlers[h].emitted :
                          \E r \in DOMAIN db.rows : db.rows[r].ticker = srv.handlers[h].emitted[k]

\* C13: no two detections of the same instrument are in flight together.
C13_Original ==
    \A g, h \in Handlers :
        (/\ g # h
         /\ srv.handlers[g].pc = "detect"
         /\ srv.handlers[h].pc = "detect")
            => srv.handlers[g].request[srv.handlers[g].i] # srv.handlers[h].request[srv.handlers[h].i]

\* C11: when the processing of one instrument of a request raised, every
\* other instrument of the request was still taken up before the answer.
C11_Original ==
    \A h \in Handlers :
        (Answered(h) /\ srv.handlers[h].raised # {})
            => srv.handlers[h].i = Len(srv.handlers[h].request)

\* ------------------------------------------------------------------------
\* The scanner process (run_scanner.py): the main thread with run(), the
\* signal handler and cleanup(), and the daemon threads that run _scan_loop.
\* ------------------------------------------------------------------------

\* The instruments of the scanner's configuration, in scanning order.
ScannerTickers == <<"SBER", "GAZP">>

\* The level a per-instrument scan reports with signal_found.
WireLevels == {"red", "yellow", "white"}

\* What the per-instrument scan request comes back with: an exception, no
\* signal, or a signal of some level.
ScanAnswers == {"raised", NoneStr} \cup WireLevels

\* Durations, in hours, asked of IgnoreTicker: the client's default.
IgnoreHours == {2}

\* Last hour the clock of the scanner model reaches.
MaxHour == 2

\* time.sleep(1) of cleanup after stop_auto_scanning.
STOP_PAUSE == 1

\* wait(timeout=5) for the bot and for the gRPC server.
TERMINATE_TIMEOUT == 5

\* A thread is inside _scan_market's loop over the instruments.
InTick(t) == scn.threads[t].pc \in {"for", "rpc"}

\* The instrument thread t has a scan request out for.
Scanning(t) == ScannerTickers[scn.threads[t].k]

\* The threading.Thread(target=self._scan_loop).start() of start_auto_scanning.
Spawned(threads) == {[threads EXCEPT ![t] = [NoThread EXCEPT !.pc = "while"]] : t \in {u \in Threads : threads[u].pc \in {"none", "returned"}}}

\* run() up to its monitoring loop: is_running, the child processes, then
\* start_auto_scanning(); when the gRPC server cannot be started it returns
\* through cleanup().
PanickerScanner_run ==
    /\ scn.main = "new"
    /\ \E grpc_started \in BOOLEAN :
          IF grpc_started
          THEN \E threads \in Spawned(scn.threads) :
                  scn' = [scn EXCEPT !.is_running = TRUE, !.scanning = TRUE, !.threads = threads, !.main = "monitor"]
          ELSE scn' = [scn EXCEPT !.main = "exited"]
    /\ UNCHANGED <<detectorVars, db, srv, cache>>

\* start_auto_scanning(): nothing when scanning is set, else set it and
\* start one more thread on _scan_loop.
start_auto_scanning ==
    /\ scn.main = "monitor"
    /\ IF scn.scanning
       THEN scn' = scn
       ELSE \E threads \in Spawned(scn.threads) :
               scn' = [scn EXCEPT !.scanning = TRUE, !.threads = threads]
    /\ UNCHANGED <<detectorVars, db, srv, cache>>

\* stop_auto_scanning(): clears the flag and returns.
stop_auto_scanning ==
    /\ scn.main = "monitor"
    /\ scn' = [scn EXCEPT !.scanning = FALSE]
    /\ UNCHANGED <<detectorVars, db, srv, cache>>

\* `while self.scanning and self.is_running`.
LoopCheck(t) ==
    /\ scn.threads[t].pc = "while"
    /\ scn' = [scn EXCEPT !.threads[t].pc = IF scn.scanning /\ scn.is_running THEN "try" ELSE "returned"]
    /\ UNCHANGED <<detectorVars, db, srv, cache>>

\* The body of the while loop up to the first instrument: not yet time
\* (sleep, back to the loop head), or a tick: scan number, _scan_market(),
\* whose calendar says closed (return 0), raises (caught by the loop, pause)
\* or says open (on to the instruments).
TickStart(t) ==
    /\ scn.threads[t].pc = "try"
    /\ \E due \in BOOLEAN, is_open \in CalendarAnswers :
          IF ~due
          THEN scn' = [scn EXCEPT !.threads[t].pc = "while"]
          ELSE scn' = [scn EXCEPT !.threads[t].pc = IF is_open = "open" THEN "for" ELSE "while",
                                  !.threads[t].k = 0,
                                  !.threads[t].fresh = (scn.ignored # NoIgnore),
                                  !.late_tick = scn.late_tick \/ scn.shutdown]
    /\ UNCHANGED <<detectorVars, db, srv, cache>>

\* The head of `for ticker in self.tickers` with its break on a cleared
\* flag; after the loop the tick is over (sleep, back to the loop head).
ForTicker(t) ==
    LET th == scn.threads[t]
    IN  /\ th.pc = "for"
        /\ IF th.k = Len(ScannerTickers) \/ ~scn.scanning \/ ~scn.is_running
           THEN scn' = [scn EXCEPT !.threads[t].pc = "while"]
           ELSE scn' = [scn EXCEPT !.threads[t].pc = "rpc", !.threads[t].k = th.k + 1]
        /\ UNCHANGED <<detectorVars, db, srv, cache>>

\* _send_alert(signal_data): the request carries the level it was given.
_send_alert(level) == level

\* The scan request for one instrument comes back; a response with
\* signal_found is handed to _send_alert.
ScanTicker(t) ==
    /\ scn.threads[t].pc = "rpc"
    /\ \E answer \in ScanAnswers :
          scn' = [scn EXCEPT !.threads[t].pc = "for",
                             !.alert = IF answer \in WireLevels THEN _send_alert(answer) ELSE scn.alert]
    /\ UNCHANGED <<detectorVars, db, srv, cache>>

_scan_loop(t) == LoopCheck(t) \/ TickStart(t) \/ ForTicker(t) \/ ScanTicker(t)

\* IgnoreTicker: answers success with ignored_until = now.  `until` is the
\* end of the period the caller asked for.
IgnoreTicker ==
    /\ scn.main = "monitor"
    /\ \E ticker \in Tickers, hours \in IgnoreHours :
          scn' = [scn EXCEPT !.ignored = [ticker |-> ticker, until |-> scn.hour + hours, answered |-> scn.hour],
                             !.threads = [t \in Threads |-> [scn.threads[t] EXCEPT !.fresh = FALSE]]]
    /\ UNCHANGED <<detectorVars, db, srv, cache>>

\* An hour passes.
NextHour ==
    /\ scn.main = "monitor"
    /\ scn.hour < MaxHour
    /\ scn' = [scn EXCEPT !.hour = scn.hour + 1]
    /\ UNCHANGED <<detectorVars, db, srv, cache>>

\* SIGINT or SIGTERM arrives: the main thread enters _signal_handler.
_signal_handler ==
    /\ scn.main \in {"new", "monitor"}
    /\ scn' = [scn EXCEPT !.shutdown = TRUE, !.main = "cleanup"]
    /\ UNCHANGED <<detectorVars, db, srv, cache>>

\* cleanup() up to its pause: returns at once when is_running is not set,
\* else clears it and, when scanning is set, calls stop_auto_scanning().
cleanup ==
    /\ scn.main = "cleanup"
    /\ scn' = [scn EXCEPT !.is_running = FALSE,
                          !.scanning = IF scn.is_running THEN FALSE ELSE scn.scanning,
                          !.waited = IF scn.is_running /\ scn.scanning THEN STOP_PAUSE ELSE 0,
                          !.main = IF scn.is_running THEN "terminate" ELSE "exit"]
    /\ UNCHANGED <<detectorVars, db, srv, cache>>

\* The rest of cleanup(): terminate the bot and the gRPC server, each
\* waited for up to the timeout and killed after it.
Terminate ==
    /\ scn.main = "terminate"
    /\ \E bot \in {0, TERMINATE_TIMEOUT}, grpc \in {0, TERMINATE_TIMEOUT} :
          scn' = [scn EXCEPT !.waited = scn.waited + bot + grpc, !.main = "exit"]
    /\ UNCHANGED <<detectorVars, db, srv, cache>>

\* sys.exit(0): the process ends and its daemon threads with it.
Exit ==
    /\ scn.main = "exit"
    /\ scn' = [scn EXCEPT !.main = "exited", !.threads = [t \in Threads |-> [scn.threads[t] EXCEPT !.pc = "returned"]]]
    /\ UNCHANGED <<detectorVars, db, srv, cache>>

InitLoop == InitWith({<<Base, "open">>})

NextLoop ==
    \/ PanickerScanner_run
    \/ start_auto_scanning
    \/ stop_auto_scanning
    \/ \E t \in Threads : _scan_loop(t)
    \/ IgnoreTicker
    \/ NextHour
    \/ _signal_handler
    \/ cleanup
    \/ Terminate
    \/ Exit

SpecLoop == InitLoop /\ [][NextLoop]_vars

\* C12: at most one scan tick is in progress at any time.
C12_Original == \A t, u \in Threads : (InTick(t) /\ InTick(u)) => t = u

\* C15: a notification is sent only for a signal whose level is red.
C15_Original == scn.alert \in {NoneStr, "red"}

\* C16: on a tick that began after an instrument was ignored for h hours,
\* no detection request goes out for it before the h hours are over.
C16_Original ==
    \A t \in Threads :
        (/\ scn.threads[t].pc = "rpc"
         /\ scn.threads[t].fresh
         /\ Scanning(t) = scn.ignored.ticker)
            => scn.hour >= scn.ignored.until

\* C17: no scan tick starts once the shutdown signal has been received, and
\* the waits of the shutdown add up to no more than a fixed deadline.
C17_Original ==
    /\ ~scn.late_tick
    /\ scn.waited <= STOP_PAUSE + 2 * TERMINATE_TIMEOUT

\* ------------------------------------------------------------------------
\* The data cache (data/data_cache.py).  Time is counted in seconds.
\* ------------------------------------------------------------------------

\* Most entries the cache is to hold (the source's limit, scaled down).
MAX_CACHE_SIZE == 2

\* default_ttl of the cache under test.
default_ttl == 2

\* Last reading of the cache's clock.
MaxCacheClock == 2

CacheData == {"v1", "v2"}

\* The ttl arguments of set(): none given, 0, or one second.
TtlArgs == {NONE, 0, 1}

\* An item that never expires.
is_expired_never(item, clock) == FALSE

\* CacheItem.is_expired.
is_expired(item, clock) == clock > item.created_at + item.ttl

\* `ttl = ttl or self.default_ttl`.
EffectiveTtl(ttl) == IF ttl = NONE \/ ttl = 0 THEN default_ttl ELSE ttl

\* The positions of `key` in the dictionary (none or one).
Positions(entries, key) == {i \in DOMAIN entries : entries[i].key = key}

\* The sequence without its i-th element.
RemoveAt(q, i) == SubSeq(q, 1, i - 1) \o SubSeq(q, i + 1, Len(q))

\* First of the stable sort by created_at: the oldest entry, the earliest
\* inserted among equally old ones.
OldestIndex(entries) ==
    CHOOSE i \in DOMAIN entries :
        \A j \in DOMAIN entries :
            \/ entries[j].created_at > entries[i].created_at
            \/ entries[j].created_at = entries[i].created_at /\ j >= i

RECURSIVE RemoveOldest(_, _)
RemoveOldest(entries, n) == IF n = 0 \/ entries = <<>> THEN entries ELSE RemoveOldest(RemoveAt(entries, OldestIndex(entries)), n - 1)

\* A cleanup that removes nothing.
_cleanup_oldest_nothing(entries) == entries

\* _cleanup_oldest: drop the oldest tenth of the entries, at least one.
_cleanup_oldest(entries) ==
    IF entries = <<>> THEN entries
    ELSE RemoveOldest(entries, Max(1, Len(entries) \div 10))

\* The dictionary after set(key, data, ttl) at time `clock`.
cache_set(entries, key, data, ttl, clock) ==
    LET kept == IF Len(entries) >= MAX_CACHE_SIZE THEN _cleanup_oldest(entries) ELSE entries
        item == [key |-> key, data |-> data, created_at |-> clock, ttl |-> EffectiveTtl(ttl)]
    IN  IF Positions(kept, key) = {}
        THEN Append(kept, item)
        ELSE [i \in DOMAIN kept |-> IF kept[i].key = key THEN item ELSE kept[i]]

\* get(key): the answer and the dictionary after it.
cache_get(entries, key, clock) ==
    LET at == Positions(entries, key)
    IN  IF at = {} THEN [result |-> NoneStr, entries |-> entries]
        ELSE LET i == CHOOSE j \in at : TRUE
             IN  IF is_expired(entries[i], clock)
                 THEN [result |-> NoneStr, entries |-> RemoveAt(entries, i)]
                 ELSE [result |-> entries[i].data, entries |-> entries]

\* The keys held by a dictionary.
KeysOf(entries) == {entries[i].key : i \in DOMAIN entries}

\* `latest` after the keys in `gone` were removed by clear() or evicted.
Dropped(latest, gone) == [k \in CacheKeys |-> IF k \in gone /\ latest[k] # NoLatest THEN [latest[k] EXCEPT !.dropped = TRUE] ELSE latest[k]]

\* The operations that touch the dictionary inside `async with self._lock`.
LockedOps == {"get", "set", "delete", "clear", "cleanup_expired"}

CacheOp(op, key, result) == [op |-> op, key |-> key, result |-> result, locked |-> op \in LockedOps]

CacheSet ==
    /\ \E key \in CacheKeys, data \in CacheData, ttl \in TtlArgs :
          LET after == cache_set(cache.entries, key, data, ttl, cache.clock)
              gone == KeysOf(cache.entries) \ KeysOf(after)
          IN  cache' = [cache EXCEPT
                          !.entries = after,
                          !.last = CacheOp("set", key, NoneStr),
                          !.latest = [Dropped(cache.latest, gone) EXCEPT ![key] = [data |-> data, at |-> cache.clock, ttl |-> EffectiveTtl(ttl), dropped |-> FALSE]]]
    /\ UNCHANGED <<detectorVars, db, srv, scn>>

CacheGet ==
    /\ \E key \in CacheKeys :
          LET r == cache_get(cache.entries, key, cache.clock)
          IN  cache' = [cache EXCEPT !.entries = r.entries, !.last = CacheOp("get", key, r.result)]
    /\ UNCHANGED <<detectorVars, db, srv, scn>>

\* delete(key).
CacheDelete ==
    /\ \E key \in CacheKeys :
          cache' = [cache EXCEPT
                      !.entries = SelectSeq(cache.entries, LAMBDA e : e.key # key),
                      !.last = CacheOp("delete", NoneStr, NoneStr),
                      !.latest[key] = NoLatest]
    /\ UNCHANGED <<detectorVars, db, srv, scn>>

\* clear().
CacheClear ==
    /\ cache' = [cache EXCEPT !.entries = <<>>,
                              !.last = CacheOp("clear", NoneStr, NoneStr),
                              !.latest = Dropped(cache.latest, KeysOf(cache.entries))]
    /\ UNCHANGED <<detectorVars, db, srv, scn>>

\* cleanup_expired().
cleanup_expired ==
    /\ cache' = [cache EXCEPT !.entries = SelectSeq(cache.entries, LAMBDA e : ~is_expired(e, cache.clock)),
                              !.last = CacheOp("cleanup_expired", NoneStr, NoneStr)]
    /\ UNCHANGED <<detectorVars, db, srv, scn>>

\* get_stats(): reads the dictionary; the answer kept is total_items.
CacheStats ==
    /\ cache' = [cache EXCEPT !.last = CacheOp("get_stats", NoneStr, NoneStr)]
    /\ UNCHANGED <<detectorVars, db, srv, scn>>

\* A second passes; the last operation is no longer the latest event.
CacheTick ==
    /\ cache.clock < MaxCacheClock
    /\ cache' = [cache EXCEPT !.clock = cache.clock + 1, !.last = NoCacheOp]
    /\ UNCHANGED <<detectorVars, db, srv, scn>>

InitCache == InitWith({<<Base, "open">>})

NextCache == CacheSet \/ CacheGet \/ CacheDelete \/ CacheClear \/ cleanup_expired \/ CacheStats \/ CacheTick

SpecCache == InitCache /\ [][NextCache]_vars

\* C23: the cache never holds more than MAX_CACHE_SIZE entries.
C23_SizeBounded == Len(cache.entries) <= MAX_CACHE_SIZE

\* A set() on a full cache that evicted an entry and stored a new key.
C23_Witness ==
    /\ cache.last.op = "set"
    /\ Len(cache.entries) = MAX_CACHE_SIZE
    /\ \E k \in CacheKeys : cache.latest[k].dropped /\ k \notin KeysOf(cache.entries)

\* What the last set() of the key of the last get() stored, if any.
Asked == cache.latest[cache.last.key]

\* C24 as stated: get(key) answers the most recently set value while that
\* value is within its TTL, and None once the TTL has passed, after a
\* delete, or when the key was never set.
C24_Original ==
    cache.last.op = "get"
        => cache.last.result = IF Asked # NoLatest /\ cache.clock <= Asked.at + Asked.ttl THEN Asked.data ELSE NoneStr

\* C24 amended: get(key) answers the most recently set value while that
\* value is within its TTL and has not been evicted by a set() on a full
\* cache or removed by clear(); in every other case it answers None.
C24_GetWithinTtl ==
    cache.last.op = "get"
        => cache.last.result = IF Asked # NoLatest /\ ~Asked.dropped /\ cache.clock <= Asked.at + Asked.ttl THEN Asked.data ELSE NoneStr

\* A get() of a key that was set, not removed since, and whose TTL has
\* passed.
C24_Witness ==
    /\ cache.last.op = "get"
    /\ Asked # NoLatest
    /\ ~Asked.dropped
    /\ cache.clock > Asked.at + Asked.ttl
    /\ cache.last.result = NoneStr

\* C28: every operation touches the dictionary with the lock held.
C28_Original == cache.last.locked

\* C30: a set() of a key that is present leaves every other entry as it was.
C30_Original ==
    [][(cache'.last.op = "set" /\ cache'.last.key \in KeysOf(cache.entries))
          => \A i \in DOMAIN cache.entries :
                cache.entries[i].key # cache'.last.key
                    => \E j \in DOMAIN cache'.entries : cache'.entries[j] = cache.entries[i]]_vars

\* C21: stats(7) reports a total equal to the sum of its three per-level
\* counts.
C21_Original ==
    db.last.op = "stats"
        => /\ db.last.stats.strong_signals # NONE
           /\ db.last.stats.moderate_signals # NONE
           /\ db.last.stats.urgent_signals # NONE
           /\ db.last.stats.total_signals = db.last.stats.strong_signals + db.last.stats.moderate_signals + db.last.stats.urgent_signals

\* C22: a save whose write failed has tried the write twice and has handed
\* the signal to the notification channel.
C22_Original ==
    (db.last.op = "save" /\ ~db.last.ok)
        => /\ db.last.inserts = 2
           /\ scn.alert # NoneStr

\* The trend filter's entry in the lists step 7 built.
TrendPassed == \E i \in DOMAIN run.passed : run.passed[i][1] = "trend"

\* C25: in an invocation that reached step 7 with an SMA20 above zero, the
\* trend filter passes a panic-typed one exactly when price > sma_20 and a
\* greed-typed one exactly when price < sma_20.
C25_Original ==
    (Reached6 /\ ticker_data.sma_20 # NONE /\ ticker_data.sma_20 > 0)
        => /\ run.signal_type = "panic"
                => (TrendPassed <=> ticker_data.price > ticker_data.sma_20)
           /\ run.signal_type = "greed"
                => (TrendPassed <=> ticker_data.price < ticker_data.sma_20)

\* The invocation's result had the calendar answered open.
ResultIfOpen ==
    analyze_ticker(ticker_data, "open", "open", [t \in Tickers |-> NONE],
                   [t \in Tickers |-> NONE], 0, api_answer).result

\* C29 as stated: when the calendar's query raises at step 1, the invocation
\* returns no signal.
C29_Original ==
    (Invoked /\ market = "raises") => run.result = <<>>

\* C29: when the calendar's query raises at step 1 the gate lets the
\* invocation through, and it returns what it returns on an open market; the
\* stub that stands in for a calendar that could not be built answers open.
C29_GateFailsOpen ==
    /\ _check_market_time(MockCalendar_is_market_open_now)
    /\ (Invoked /\ market = "raises")
          => (PassedGate \/ run.outcome \in {"no_data", "rsi_normal", "low_volume"})
             /\ run.result = ResultIfOpen

\* The calendar raised and the invocation returned a signal.
C29_Witness ==
    /\ market = "raises"
    /\ run.outcome = "emitted"
    /\ run.result # <<>>

\* The volume filter's entry in the lists step 7 built.
VolumePassed == \E i \in DOMAIN run.passed : run.passed[i][1] = "volume"

\* The average daily volume the filter of a fresh detector works with:
\* <<numerator, denominator>>, from the input's history or from the adapter.
AverageVolumeUsed ==
    IF ticker_data.historical_volumes # <<>>
    THEN <<SumSeq(ticker_data.historical_volumes),
           Len(ticker_data.historical_volumes)>>
    ELSE <<api_answer, 1>>

\* C26 as stated: in an invocation that reached step 7 the volume filter
\* passes exactly when the invocation's volume_ratio is at least
\* min_volume_ratio.
C26_Original ==
    Reached6 => (VolumePassed <=> ticker_data.volume_ratio >= VOLUME_MIN)

\* C26: in an invocation that reached step 7 the volume filter passes exactly
\* when the input has a ticker and a current volume, a positive average daily
\* volume is at hand, and current_volume / average is at least the
\* min_volume_ratio the detector configures (white.volume_min, 1.2).
C26_CurrentOverAverage ==
    Reached6
        => (VolumePassed
              <=> /\ ticker_data.ticker \notin {NoneStr, ""}
                  /\ ticker_data.current_volume # NONE
                  /\ AverageVolumeUsed[1] # NONE
                  /\ AverageVolumeUsed[1] > 0
                  /\ ticker_data.current_volume * AverageVolumeUsed[2] * 10
                        >= VOLUME_MIN * AverageVolumeUsed[1])

\* The filter passed a current volume of 1.4 times the average, which is
\* below the filter's own default of 1.5.
C26_Witness ==
    /\ Reached6
    /\ VolumePassed
    /\ ticker_data.current_volume = 273
    /\ ticker_data.historical_volumes = <<195, 195>>

(***************************************************************************)
(* The scan loop with its clock (SpecClosed): one loop thread, started by  *)
(* run(), and the seconds its sleeps take.                                 *)
(***************************************************************************)
SCAN_INTERVAL == 60

SCAN_COOLDOWN == 300

\* time.sleep(1) of the loop, both when it is not yet time and after a tick.
LOOP_PAUSE == 1

\* time.sleep(5) after an exception in the loop.
ERROR_PAUSE == 5

\* Last second the clock of the loop reaches.
MaxSecs == 125

\* scan_settings as load_scan_settings builds them.
scan_settings == [scan_interval |-> SCAN_INTERVAL, cooldown_closed |-> SCAN_COOLDOWN]

\* `time_since_last_scan < scan_interval` is false: it is time to scan.
NextScanDue(timer) ==
    timer.secs - timer.last_scan_time >= scan_settings.scan_interval

\* The timer after _scan_market asked the calendar at timer.secs and the
\* loop slept for `pause` seconds.
Checked(timer, is_open, pause) ==
    [secs |-> timer.secs + pause,
     last_scan_time |-> timer.secs,
     checked_at |-> timer.secs,
     closed |-> (is_open = "closed"),
     prev_closed |-> IF timer.closed THEN timer.checked_at ELSE NONE]

\* The body of the while loop with the clock.  Not yet time: sleep(1) and
\* back to the loop head.  Else a tick: last_scan_time, then _scan_market(),
\* whose calendar says closed (return 0, sleep(1)), raises (caught by the
\* loop, sleep(5)) or says open (on to the instruments; the sleep(1) that
\* ends the tick is booked here, the pauses between requests are below the
\* clock's resolution).
TimedTick(t) ==
    /\ scn.threads[t].pc = "try"
    /\ scn.timer.secs < MaxSecs
    /\ IF ~NextScanDue(scn.timer)
       THEN scn' = [scn EXCEPT !.threads[t].pc = "while",
                               !.timer.secs = scn.timer.secs + LOOP_PAUSE]
       ELSE \E is_open \in CalendarAnswers :
               scn' = [scn EXCEPT !.threads[t].pc = IF is_open = "open" THEN "for" ELSE "while",
                                  !.threads[t].k = 0,
                                  !.timer = Checked(scn.timer, is_open,
                                                    IF is_open = "raises" THEN ERROR_PAUSE ELSE LOOP_PAUSE)]
    /\ UNCHANGED <<detectorVars, db, srv, cache>>

InitClosed == InitWith({<<Base, "open">>})

NextClosed ==
    \/ PanickerScanner_run
    \/ stop_auto_scanning
    \/ \E t \in Threads : LoopCheck(t) \/ TimedTick(t) \/ ForTicker(t) \/ ScanTicker(t)

SpecClosed == InitClosed /\ [][NextClosed]_vars

\* C27: a tick that found the market closed sends no scan request for any
\* instrument, and the market check after it comes no sooner than
\* cooldown_closed seconds later.
C27_Original ==
    /\ scn.timer.closed => \A t \in Threads : ~InTick(t)
    /\ scn.timer.prev_closed # NONE
          => scn.timer.checked_at >= scn.timer.prev_closed + scan_settings.cooldown_closed

====
